---- MODULE Spec2Model ----
(***************************************************************************)
(* A model of the token store of src/src/lib.rs: Store (a vector of        *)
(* optional (boxed value, liveness cell) slots), Token (slot id, shared    *)
(* liveness cell, type tag) and StoreProxy (a store plus the list of slot  *)
(* ids borrowed by the enclosing with_value calls).                        *)
(*                                                                         *)
(* Slot ids are 0-based as in the source; slot id i is element i+1 of the  *)
(* TLA+ sequence.  A panic ends the run: panic holds its message.          *)
(***************************************************************************)
EXTENDS Integers, Sequences, FiniteSets, TLC

\* ---------------------------------------------------------------- bounds
\* the number of insert calls of a run (each allocates one liveness cell)
MaxInserts == 2
\* the nesting depth of with_value callbacks
MaxDepth == 2

\* the Store values of the caller's program
Stores == {1, 2}
\* the concrete types V the caller stores (TypeId of the boxed value)
Types == {"i32", "String"}
\* the values of a type
Values == {0, 1}

VARIABLES
    values,   \* values[s]: Store.values of store s, a sequence of slots
    cells,    \* the Rc<Cell<bool>> heap: cells[l] is the content of cell l
    tokens,   \* the Token values the caller holds: it keeps a clone of each (equal clones are one element)
    stack,    \* the deeper_proxy of every active with_value call, outermost first
    panic,    \* "ok", or the message of the panic that ended the run
    issued,   \* history: issued[l] = the store, id and type of the insert that made cell l
    written,  \* history: written[l] = the value last written through a token of cell l
    removed,  \* history: the cells l such that a remove through a token of cell l returned
    foreign   \* whether the caller also passes tokens to stores that did not issue them

vars == <<values, cells, tokens, stack, panic, issued, written, removed, foreign>>

\* ------------------------------------------------------------ data model
\* Option<(Box<Any>, Rc<Cell<bool>>)>: None, or Some((boxed value, live))
None == [some |-> FALSE, type |-> "none", val |-> 0, live |-> 0]

Some(type, val, live) == [some |-> TRUE, type |-> type, val |-> val, live |-> live]

\* Token<V> { id, live, _type: PhantomData<V> }
Token(id, live, type) == [id |-> id, live |-> live, type |-> type]

\* impl Clone for Token: the same id, the same cell (live.clone() shares it)
TokenClone(t) == Token(t.id, t.live, t.type)

NoToken == [id |-> 0, live |-> 0, type |-> "none"]

\* StoreProxy { store, borrowed }; a proxy built by with_value also stands for
\* the callback it is passed to, which holds `value`: a reference to the
\* boxed value (box) that slot (store, id) held when with_value was called.
\* The field token is history: the token with_value was called with.
Proxy(store, borrowed, box, token) ==
    [store |-> store, borrowed |-> borrowed, box |-> box, token |-> token]

\* self.borrowed.contains(&token.id)
Contains(borrowed, id) == \E k \in 1..Len(borrowed) : borrowed[k] = id

\* the outcome of an operation: the panic it ended with, or "ok"
Ok == "ok"
AlreadyRemoved == "already removed"
DoubleBorrow == "double borrow"
IndexOutOfBounds == "index out of bounds"
UnwrapNone == "unwrap on None"

\* ---------------------------------------------------------- Store::new
StoreNew == << >>

\* ------------------------------------------------------- Store::insert
\* a scan that forgets s.is_none(): the first slot, whatever it holds
EmptySlot_Any(vs) == IF Len(vs) > 0 THEN 0 ELSE -1

\* a scan from the end: the last empty slot
EmptySlot_Last(vs) ==
    IF \E i \in 1..Len(vs) : ~vs[i].some
    THEN (CHOOSE i \in 1..Len(vs) :
              /\ ~vs[i].some
              /\ \A j \in (i + 1)..Len(vs) : vs[j].some) - 1
    ELSE -1

\* self.values.iter_mut().enumerate().find(|s| s.is_none()): the 0-based id
\* of the first empty slot, or -1 when there is none
EmptySlot(vs) ==
    IF \E i \in 1..Len(vs) : ~vs[i].some
    THEN (CHOOSE i \in 1..Len(vs) :
              /\ ~vs[i].some
              /\ \A j \in 1..(i - 1) : vs[j].some) - 1
    ELSE -1

\* an insert without the scan for an empty slot
StoreInsertOp_AlwaysPush(vs, type, val, live) ==
    [values |-> Append(vs, Some(type, val, live)), id |-> Len(vs)]

\* insert(value): the slots afterwards and the id of the returned token
StoreInsertOp(vs, type, val, live) ==
    LET e == EmptySlot(vs) IN
    IF e # -1
    THEN [values |-> [vs EXCEPT ![e + 1] = Some(type, val, live)], id |-> e]
    ELSE LET pushed == Append(vs, Some(type, val, live)) IN
         [values |-> pushed, id |-> Len(pushed) - 1]

\* ---------------------------------------------------------- Store::get
\* a lookup without the check of token.live
StoreGetOp_NoLiveCheck(vs, cs, token) ==
    IF token.id >= Len(vs) THEN [err |-> IndexOutOfBounds, val |-> 0]
    ELSE IF ~vs[token.id + 1].some THEN [err |-> UnwrapNone, val |-> 0]
    ELSE IF vs[token.id + 1].type # token.type THEN [err |-> UnwrapNone, val |-> 0]
    ELSE [err |-> Ok, val |-> vs[token.id + 1].val]

\* get(&token) / the lookup of get_mut(&token): the panic or the value
StoreGetOp(vs, cs, token) ==
    IF ~cs[token.live] THEN [err |-> AlreadyRemoved, val |-> 0]
    ELSE IF token.id >= Len(vs) THEN [err |-> IndexOutOfBounds, val |-> 0]
    ELSE IF ~vs[token.id + 1].some THEN [err |-> UnwrapNone, val |-> 0]
    ELSE IF vs[token.id + 1].type # token.type THEN [err |-> UnwrapNone, val |-> 0]
    ELSE [err |-> Ok, val |-> vs[token.id + 1].val]

\* *store.get_mut(&token) = v: the slots after the caller's write
StoreGetMutOp(vs, cs, token, v) ==
    IF StoreGetOp(vs, cs, token).err = Ok
    THEN [vs EXCEPT ![token.id + 1].val = v]
    ELSE vs

\* ------------------------------------------------------- Store::remove
\* a remove that forgets live.set(false)
StoreRemoveOp_NoUnset(vs, cs, token) ==
    IF ~cs[token.live]
    THEN [err |-> AlreadyRemoved, val |-> 0, values |-> vs, cells |-> cs]
    ELSE IF token.id >= Len(vs)
    THEN [err |-> IndexOutOfBounds, val |-> 0, values |-> vs, cells |-> cs]
    ELSE LET slot == vs[token.id + 1]
             taken == [vs EXCEPT ![token.id + 1] = None] IN
         IF ~slot.some \/ slot.type # token.type
         THEN [err |-> UnwrapNone, val |-> 0, values |-> taken, cells |-> cs]
         ELSE [err |-> Ok, val |-> slot.val, values |-> taken, cells |-> cs]

\* a remove that takes the slot before it tests token.live
StoreRemoveOp_TakeFirst(vs, cs, token) ==
    IF token.id >= Len(vs)
    THEN [err |-> IndexOutOfBounds, val |-> 0, values |-> vs, cells |-> cs]
    ELSE LET slot == vs[token.id + 1]
             taken == [vs EXCEPT ![token.id + 1] = None] IN
         IF ~cs[token.live]
         THEN [err |-> AlreadyRemoved, val |-> 0, values |-> taken, cells |-> cs]
         ELSE IF ~slot.some
         THEN [err |-> UnwrapNone, val |-> 0, values |-> taken, cells |-> cs]
         ELSE LET unset == [cs EXCEPT ![slot.live] = FALSE] IN
              IF slot.type # token.type
              THEN [err |-> UnwrapNone, val |-> 0, values |-> taken, cells |-> unset]
              ELSE [err |-> Ok, val |-> slot.val, values |-> taken, cells |-> unset]

\* remove(token): the panic or the value, and the slots and cells afterwards
StoreRemoveOp(vs, cs, token) ==
    IF ~cs[token.live]
    THEN [err |-> AlreadyRemoved, val |-> 0, values |-> vs, cells |-> cs]
    ELSE IF token.id >= Len(vs)
    THEN [err |-> IndexOutOfBounds, val |-> 0, values |-> vs, cells |-> cs]
    ELSE LET slot == vs[token.id + 1]
             taken == [vs EXCEPT ![token.id + 1] = None] IN
         IF ~slot.some
         THEN [err |-> UnwrapNone, val |-> 0, values |-> taken, cells |-> cs]
         ELSE LET unset == [cs EXCEPT ![slot.live] = FALSE] IN
              IF slot.type # token.type
              THEN [err |-> UnwrapNone, val |-> 0, values |-> taken, cells |-> unset]
              ELSE [err |-> Ok, val |-> slot.val, values |-> taken, cells |-> unset]

\* ----------------------------------------------------- Store::as_proxy
\* an as_proxy whose borrowed list is not empty: slot 0 is taken as borrowed
AsProxyOp_Borrowed(s) == Proxy(s, <<0>>, 0, NoToken)

AsProxyOp(s) == Proxy(s, << >>, 0, NoToken)

\* ------------------------------------------------- StoreProxy::with_value
\* a with_value without the borrowed check
ProxyWithValueErr_NoCheck(borrowed, vs, cs, token) == StoreGetOp(vs, cs, token).err

\* the panic of with_value(&token, f) through a proxy, or "ok" when f is called
ProxyWithValueErr(borrowed, vs, cs, token) ==
    IF Contains(borrowed, token.id) THEN DoubleBorrow
    ELSE StoreGetOp(vs, cs, token).err

\* a with_value that forgets my_borrowed.push(token.id)
DeeperProxy_NoPush(p, vs, token) ==
    Proxy(p.store, p.borrowed, vs[token.id + 1].live, token)

\* a with_value that puts token.id in front of the borrowed list
DeeperProxy_Prepend(p, vs, token) ==
    Proxy(p.store, <<token.id>> \o p.borrowed, vs[token.id + 1].live, token)

\* deeper_proxy: the same store, borrowed = self.borrowed.clone() + [token.id]
DeeperProxy(p, vs, token) ==
    Proxy(p.store, Append(p.borrowed, token.id), vs[token.id + 1].live, token)

\* ------------------------------------------------------------- the caller
\* the index in stack of the proxy through which store s is reachable (the
\* innermost proxy of s: the outer ones are mutably borrowed by it), 0 if none
ProxyOf(s) ==
    IF \E k \in 1..Len(stack) : stack[k].store = s
    THEN CHOOSE k \in 1..Len(stack) :
             /\ stack[k].store = s
             /\ \A j \in (k + 1)..Len(stack) : stack[j].store # s
    ELSE 0

\* the proxy through which the caller reaches store s: the innermost proxy of
\* s while a callback on s runs, else a proxy that as_proxy makes.  A proxy
\* made by as_proxy holds no state but its empty borrowed list, so that it is
\* not kept on the stack: it is made where it is used.
Reach(s) == IF ProxyOf(s) = 0 THEN AsProxyOp(s) ELSE stack[ProxyOf(s)]

Init ==
    /\ values = [s \in Stores |-> StoreNew]
    /\ cells = << >>
    /\ tokens = {}
    /\ stack = << >>
    /\ panic = Ok
    /\ issued = << >>
    /\ written = << >>
    /\ removed = {}
    /\ foreign = TRUE

\* the stores a caller passes token t to: the API takes any token of the type
\* (Token holds no store), a disciplined caller only the tokens of the store
Allowed(s, t) == IF foreign THEN TRUE ELSE issued[t.live].store = s

\* Token::clone: the caller holds the clone too
Clone ==
    /\ panic = Ok
    /\ \E t \in tokens : tokens' = tokens \cup {TokenClone(t)}
    /\ UNCHANGED <<values, cells, stack, panic, issued, written, removed, foreign>>

\* the effect of insert(v) on store s, directly or through a proxy
DoInsert(s, type, v) ==
    LET live == Len(cells) + 1
        r == StoreInsertOp(values[s], type, v, live)
        t == Token(r.id, live, type) IN
    /\ Len(cells) < MaxInserts
    /\ values' = [values EXCEPT ![s] = r.values]
    /\ cells' = Append(cells, TRUE)
    /\ tokens' = tokens \cup {t}
    /\ issued' = Append(issued, [store |-> s, id |-> r.id, type |-> type])
    /\ written' = Append(written, v)
    /\ UNCHANGED <<stack, panic, removed, foreign>>

\* the effect of get(&t) on store s; borrowErr is the proxy's check, if any
DoGet(s, t, borrowErr) ==
    LET r == StoreGetOp(values[s], cells, t) IN
    /\ panic' = IF borrowErr # Ok THEN borrowErr ELSE r.err
    /\ UNCHANGED <<values, cells, tokens, stack, issued, written, removed, foreign>>

\* the effect of *get_mut(&t) = v
DoGetMut(s, t, v, borrowErr) ==
    LET r == StoreGetOp(values[s], cells, t)
        err == IF borrowErr # Ok THEN borrowErr ELSE r.err IN
    /\ values' = IF borrowErr # Ok THEN values
                 ELSE [values EXCEPT ![s] = StoreGetMutOp(values[s], cells, t, v)]
    /\ written' = IF err = Ok THEN [written EXCEPT ![t.live] = v] ELSE written
    /\ panic' = err
    /\ UNCHANGED <<cells, tokens, stack, issued, removed, foreign>>

\* the effect of remove(t): the token is moved into the call (the caller may
\* have kept clones of it: tokens keeps them)
DoRemove(s, t, borrowErr) ==
    LET r == StoreRemoveOp(values[s], cells, t)
        err == IF borrowErr # Ok THEN borrowErr ELSE r.err IN
    /\ values' = IF borrowErr # Ok THEN values ELSE [values EXCEPT ![s] = r.values]
    /\ cells' = IF borrowErr # Ok THEN cells ELSE r.cells
    /\ removed' = IF err = Ok THEN removed \cup {t.live} ELSE removed
    /\ panic' = err
    /\ UNCHANGED <<tokens, stack, issued, written, foreign>>

\* the effect of with_value(&t, f) through proxy p: f is entered when it is ok
DoWithValue(p, t) ==
    LET s == p.store
        err == ProxyWithValueErr(p.borrowed, values[s], cells, t) IN
    /\ err = Ok => Len(stack) < MaxDepth
    /\ stack' = IF err = Ok THEN Append(stack, DeeperProxy(p, values[s], t))
                ELSE stack
    /\ panic' = err
    /\ UNCHANGED <<values, cells, tokens, issued, written, removed, foreign>>

\* the check of StoreProxy::get before it delegates to Store::get
ProxyGetErr(p, t) == IF Contains(p.borrowed, t.id) THEN DoubleBorrow ELSE Ok

\* the check of StoreProxy::get_mut before it delegates to Store::get_mut
ProxyGetMutErr(p, t) == IF Contains(p.borrowed, t.id) THEN DoubleBorrow ELSE Ok

\* a proxy remove without the borrowed check
ProxyRemoveErr_NoCheck(p, t) == Ok

\* a proxy remove that rejects every token while anything is borrowed
ProxyRemoveErr_AnyBorrowed(p, t) == IF Len(p.borrowed) > 0 THEN DoubleBorrow ELSE Ok

\* the check of StoreProxy::remove before it delegates to Store::remove
ProxyRemoveErr(p, t) == IF Contains(p.borrowed, t.id) THEN DoubleBorrow ELSE Ok

StoreInsert ==
    /\ panic = Ok
    /\ \E s \in Stores, type \in Types, v \in Values :
          /\ ProxyOf(s) = 0
          /\ DoInsert(s, type, v)

StoreGet ==
    /\ panic = Ok
    /\ \E s \in Stores, t \in tokens :
          /\ ProxyOf(s) = 0
          /\ Allowed(s, t)
          /\ DoGet(s, t, Ok)

StoreGetMut ==
    /\ panic = Ok
    /\ \E s \in Stores, t \in tokens, v \in Values :
          /\ ProxyOf(s) = 0
          /\ Allowed(s, t)
          /\ DoGetMut(s, t, v, Ok)

StoreRemove ==
    /\ panic = Ok
    /\ \E s \in Stores, t \in tokens :
          /\ ProxyOf(s) = 0
          /\ Allowed(s, t)
          /\ DoRemove(s, t, Ok)

\* Store::with_value: self.as_proxy().with_value(token, f)
StoreWithValue ==
    /\ panic = Ok
    /\ \E s \in Stores, t \in tokens :
          /\ ProxyOf(s) = 0
          /\ Allowed(s, t)
          /\ DoWithValue(AsProxyOp(s), t)

\* store.as_proxy().insert(v), or proxy.insert(v) in a callback
ProxyInsert ==
    /\ panic = Ok
    /\ \E s \in Stores, type \in Types, v \in Values :
          /\ DoInsert(s, type, v)

ProxyGet ==
    /\ panic = Ok
    /\ \E s \in Stores, t \in tokens :
          /\ Allowed(s, t)
          /\ DoGet(s, t, ProxyGetErr(Reach(s), t))

ProxyGetMut ==
    /\ panic = Ok
    /\ \E s \in Stores, t \in tokens, v \in Values :
          /\ Allowed(s, t)
          /\ DoGetMut(s, t, v, ProxyGetMutErr(Reach(s), t))

ProxyRemove ==
    /\ panic = Ok
    /\ \E s \in Stores, t \in tokens :
          /\ Allowed(s, t)
          /\ DoRemove(s, t, ProxyRemoveErr(Reach(s), t))

ProxyWithValue ==
    /\ panic = Ok
    /\ \E s \in Stores, t \in tokens :
          /\ Allowed(s, t)
          /\ DoWithValue(Reach(s), t)

\* whether `value` of the callback of proxy p still points to a boxed value:
\* the box is freed when its slot is removed
ValueRefValid(p) ==
    LET id == p.borrowed[Len(p.borrowed)] IN
    /\ id < Len(values[p.store])
    /\ values[p.store][id + 1].some
    /\ values[p.store][id + 1].live = p.box

\* what a write of v through a dangling `value` may leave in the stores
\* (undefined behaviour): nothing, or v in any boxed value
DanglingWrite(v) ==
    {values} \cup
    UNION {{[values EXCEPT ![s][i].val = v] :
               i \in {j \in 1..Len(values[s]) : values[s][j].some}} : s \in Stores}

\* *value = v inside a callback: a write through the reference with_value made
\* from the raw pointer to the boxed value.  Any callback on the stack may
\* write: an inner closure can capture the `value` of an outer one.
WriteValue ==
    /\ panic = Ok
    /\ \E k \in 1..Len(stack), v \in Values :
          LET p == stack[k]
              id == p.borrowed[Len(p.borrowed)] IN
          /\ IF ValueRefValid(p)
             THEN /\ values' = [values EXCEPT ![p.store][id + 1].val = v]
                  /\ panic' = Ok
             ELSE /\ values' \in DanglingWrite(v)
                  /\ panic' \in {Ok, "undefined behaviour"}
          /\ written' = [written EXCEPT ![p.token.live] = v]
    /\ UNCHANGED <<cells, tokens, stack, issued, removed, foreign>>

\* the callback f returns, with_value returns its result; deeper_proxy is dropped
Return ==
    /\ panic = Ok
    /\ Len(stack) > 0
    /\ stack' = SubSeq(stack, 1, Len(stack) - 1)
    /\ UNCHANGED <<values, cells, tokens, panic, issued, written, removed, foreign>>

Next ==
    \/ Clone
    \/ StoreInsert
    \/ StoreGet
    \/ StoreGetMut
    \/ StoreRemove
    \/ StoreWithValue
    \/ ProxyInsert
    \/ ProxyGet
    \/ ProxyGetMut
    \/ ProxyRemove
    \/ ProxyWithValue
    \/ WriteValue
    \/ Return

Spec == Init /\ [][Next]_vars

\* the runs of a caller that passes every token to the store that issued it
InitOwn ==
    /\ values = [s \in Stores |-> StoreNew]
    /\ cells = << >>
    /\ tokens = {}
    /\ stack = << >>
    /\ panic = Ok
    /\ issued = << >>
    /\ written = << >>
    /\ removed = {}
    /\ foreign = FALSE

SpecOwn == InitOwn /\ [][Next]_vars

\* ------------------------------------------------------------------ claims
\* the proxies of the session chain that the callback of stack[k] works with:
\* the proxy passed to it and the ones nested further on the same store
Chain(k) == {j \in k..Len(stack) : stack[j].store = stack[k].store}

Callbacks == 1..Len(stack)

\* C1: once remove has succeeded through a token of a cell, every token of that
\* cell is dead, and get, get_mut and remove through it panic "already removed"
\* on every store it is passed to, also after the slot was occupied again.
C1_RemovedHandleIsDead ==
    \A t \in tokens :
        t.live \in removed =>
            /\ ~cells[t.live]
            /\ \A s \in Stores : Allowed(s, t) =>
                  /\ StoreGetOp(values[s], cells, t).err = AlreadyRemoved
                  /\ StoreRemoveOp(values[s], cells, t).err = AlreadyRemoved

\* C2: while with_value(h, f) is active, get, get_mut, remove and with_value
\* with h (or a clone: an equal token) through the proxy passed to f, or
\* through any proxy nested further, panic with a double borrow.
C2_DoubleBorrowRejected ==
    \A k \in Callbacks : \A j \in Chain(k) :
        /\ ProxyGetErr(stack[j], TokenClone(stack[k].token)) = DoubleBorrow
        /\ ProxyGetMutErr(stack[j], TokenClone(stack[k].token)) = DoubleBorrow
        /\ ProxyRemoveErr(stack[j], TokenClone(stack[k].token)) = DoubleBorrow
        /\ ProxyWithValueErr(stack[j].borrowed, values[stack[j].store], cells,
                             TokenClone(stack[k].token)) = DoubleBorrow

\* C2 witness: a with_value nested in a with_value on the same store, and an
\* operation in the inner callback stopped by the double borrow panic
C2_Witness ==
    /\ panic = DoubleBorrow
    /\ Len(stack) = 2
    /\ Callbacks = {1, 2}
    /\ stack[1].store = stack[2].store

\* the cell of the occupant of slot id of store s, 0 for an empty slot
Occupant(s, id) ==
    IF id < Len(values[s]) /\ values[s][id + 1].some
    THEN values[s][id + 1].live ELSE 0

LiveCells == {l \in 1..Len(cells) : cells[l]}

\* C3: every occupied slot holds the occupant of exactly one live handle
\* family, the one its insert returned; two live families never name the same
\* slot; insert returns an id no live handle of the store names.
C3_NoAliasedFamilies ==
    /\ \A s \in Stores : \A i \in 1..Len(values[s]) :
          values[s][i].some =>
              LET l == values[s][i].live IN
              /\ l \in LiveCells
              /\ issued[l] = [store |-> s, id |-> i - 1, type |-> values[s][i].type]
    /\ \A l \in LiveCells : Occupant(issued[l].store, issued[l].id) = l
    /\ \A l1, l2 \in LiveCells :
          (issued[l1].store = issued[l2].store /\ issued[l1].id = issued[l2].id)
              => l1 = l2
    /\ \A s \in Stores : \A type \in Types, v \in Values :
          LET r == StoreInsertOp(values[s], type, v, Len(cells) + 1) IN
          \A l \in LiveCells : issued[l].store = s => issued[l].id # r.id

\* C3 witness: a slot id occupied again after a removal, beside a dead token
\* of the former occupant
C3_Witness ==
    \E l1 \in 1..Len(cells) : \E l2 \in LiveCells :
        /\ ~cells[l1]
        /\ issued[l1].store = issued[l2].store
        /\ issued[l1].id = issued[l2].id
        /\ Occupant(issued[l2].store, issued[l2].id) = l2

\* C4: for every live token and every store it can be passed to, the slot at
\* the token's id exists, is occupied and holds a value of the token's type,
\* so that get, get_mut and remove do not fail.
C4_LiveHandleNamesItsValue ==
    \A t \in tokens : cells[t.live] =>
        \A s \in Stores : Allowed(s, t) =>
            /\ t.id < Len(values[s])
            /\ values[s][t.id + 1].some
            /\ values[s][t.id + 1].type = t.type
            /\ StoreGetOp(values[s], cells, t).err = Ok

\* the value in the slot that the insert of cell l occupied
OccupantVal(l) == values[issued[l].store][issued[l].id + 1].val

\* C5: get through a live token returns the value last written for it: the
\* inserted value, or the latest write through get_mut or through the value
\* reference of with_value.
C5_GetReturnsLastWritten ==
    \A t \in tokens : cells[t.live] =>
        \A s \in Stores :
            (Allowed(s, t) /\ StoreGetOp(values[s], cells, t).err = Ok)
                => StoreGetOp(values[s], cells, t).val = written[t.live]

\* C6: remove through a live token h returns the current value of h's
\* occupant, leaves the slot at h's id empty, so that the next insert can take
\* it, and sets the cell that h and its clones share to false.
C6_RemoveEffect ==
    \A t \in tokens : cells[t.live] =>
        \A s \in Stores :
            LET r == StoreRemoveOp(values[s], cells, t) IN
            (Allowed(s, t) /\ r.err = Ok) =>
                /\ r.val = OccupantVal(t.live)
                /\ r.val = written[t.live]
                /\ ~r.values[t.id + 1].some
                /\ EmptySlot(r.values) # -1
                /\ EmptySlot(r.values) <= t.id
                /\ ~r.cells[t.live]

\* the ids of the empty slots of store s
Empties(s) == {i \in 0..(Len(values[s]) - 1) : ~values[s][i + 1].some}

\* the slot id the claims give to the next insert on store s
LowestFree(s) ==
    IF Empties(s) = {} THEN Len(values[s])
    ELSE CHOOSE i \in Empties(s) : \A j \in Empties(s) : i <= j

\* a step is an insert when it allocates a cell
IsInsert == Len(cells') = Len(cells) + 1

\* C7: insert does not fail; the value goes to the empty slot of lowest id, or
\* to a new slot at id = the slot count when no slot is empty; the token
\* returned names that slot and holds a new cell that reads true.
C7_InsertPlacement ==
    /\ [](\A s \in Stores, type \in Types, v \in Values :
             LET r == StoreInsertOp(values[s], type, v, Len(cells) + 1) IN
             /\ r.id = LowestFree(s)
             /\ r.values[r.id + 1] = Some(type, v, Len(cells) + 1))
    /\ [][IsInsert =>
          \E s \in Stores, type \in Types, v \in Values :
              LET id == LowestFree(s)
                  live == Len(cells')
                  new == [some |-> TRUE, type |-> type, val |-> v, live |-> live] IN
              /\ panic' = Ok
              /\ Len(values'[s]) = IF Empties(s) = {} THEN Len(values[s]) + 1
                                   ELSE Len(values[s])
              /\ values'[s][id + 1] = new
              /\ \A i \in 1..Len(values[s]) : i # id + 1 => values'[s][i] = values[s][i]
              /\ \A s2 \in Stores \ {s} : values'[s2] = values[s2]
              /\ tokens' = tokens \cup {[id |-> id, live |-> live, type |-> type]}
              /\ cells'[live] = TRUE
              /\ \A l \in 1..Len(cells) : cells'[l] = cells[l]
              /\ \A t \in tokens : t.live # live
              /\ \A s2 \in Stores : \A i \in 1..Len(values[s2]) : values[s2][i].live # live
       ]_vars

\* C7 witness: after two inserts and the removal of the first value, a store
\* with slot 0 empty below the occupied slot 1: the next insert has to take
\* slot 0 and not a new slot 2
C7_Witness ==
    \E s \in Stores :
        /\ Len(values[s]) = 2
        /\ ~values[s][1].some
        /\ values[s][2].some
        /\ [id |-> 1, live |-> values[s][2].live, type |-> values[s][2].type] \in tokens

\* C8: a store starts with no slot and its slot count never decreases; insert
\* adds one slot when no slot is empty and none otherwise; no other operation
\* changes the slot count.
C8_SlotCount ==
    /\ \A s \in Stores : Len(values[s]) = 0
    /\ [][\A s \in Stores :
             /\ Len(values'[s]) >= Len(values[s])
             /\ ~IsInsert => Len(values'[s]) = Len(values[s])
             /\ (IsInsert /\ issued'[Len(issued')].store = s) =>
                    Len(values'[s]) = IF Empties(s) = {} THEN Len(values[s]) + 1
                                      ELSE Len(values[s])
             /\ (IsInsert /\ issued'[Len(issued')].store # s) =>
                    Len(values'[s]) = Len(values[s])
       ]_vars

\* C8 witness: insert, remove, insert on a store: one slot, holding the second value
C8_Witness ==
    \E s \in Stores :
        /\ Len(cells) = 2
        /\ issued[1].store = s /\ issued[2].store = s
        /\ ~cells[1]
        /\ Len(values[s]) = 1
        /\ values[s][1].some /\ values[s][1].live = 2

\* the cells that are the flag of some slot's occupant
InSlots(vals) ==
    UNION {{vals[s][i].live : i \in {j \in 1..Len(vals[s]) : vals[s][j].some}} :
              s \in Stores}

\* C9: a cell is true from the insert that made it until its occupant is
\* removed, and false ever after; an insert that takes a slot again makes a
\* new cell: a dead cell is never the cell of a later occupant.
C9_FlagLifecycle ==
    /\ [](\A l \in 1..Len(cells) : (cells[l] <=> l \in InSlots(values)))
    /\ [][/\ Len(cells') >= Len(cells)
          /\ \A l \in 1..Len(cells) :
                /\ ~cells[l] => ~cells'[l]
                /\ (cells[l] /\ ~cells'[l]) =>
                      /\ l \in InSlots(values)
                      /\ l \notin InSlots(values')
          /\ \A l \in InSlots(values') \ InSlots(values) :
                l > Len(cells) /\ cells'[l]
       ]_vars

\* C9 witness: a slot occupied again, with a live cell, after the cell of its
\* former occupant died
C9_Witness ==
    \E l1, l2 \in 1..Len(cells) :
        /\ l1 < l2
        /\ ~cells[l1] /\ cells[l2]
        /\ issued[l1].store = issued[l2].store
        /\ issued[l1].id = issued[l2].id
        /\ l1 \in removed

\* C10: with_value(h, f) with a live token whose id is not borrowed calls f,
\* with a reference to h's occupant that stays valid while f runs; what f and
\* the callbacks nested in it wrote through the value references and through
\* get_mut is in the store, during the callbacks and after they returned.
C10_WithValueRunsCallback ==
    /\ \A s \in Stores : \A t \in tokens :
          (Allowed(s, t) /\ cells[t.live] /\ ~Contains(Reach(s).borrowed, t.id)) =>
              /\ ProxyWithValueErr(Reach(s).borrowed, values[s], cells, t) = Ok
              /\ DeeperProxy(Reach(s), values[s], t).box = t.live
    /\ \A k \in Callbacks :
          /\ ValueRefValid(stack[k])
          /\ stack[k].box = stack[k].token.live
    /\ \A l \in LiveCells : OccupantVal(l) = written[l]

\* the return of a callback changes nothing in the stores
ReturnKeepsEffects ==
    [][Len(stack') < Len(stack) =>
          /\ values' = values
          /\ cells' = cells
          /\ tokens' = tokens
          /\ SubSeq(stack, 1, Len(stack')) = stack'
    ]_vars

\* C11: Store::with_value(h, f) is as_proxy().with_value(h, f): as_proxy makes
\* a proxy of the store with an empty borrowed list, so that with_value on the
\* store never reports a double borrow, fails exactly when the store's lookup
\* of h fails, and otherwise passes f a proxy of the same store whose borrowed
\* list is exactly <<h.id>>; a step of Store::with_value is a step of
\* with_value through the proxy as_proxy makes, and conversely.
C11_StoreWithValueIsProxyWithValue ==
    /\ [](\A s \in Stores :
             /\ AsProxyOp(s).store = s
             /\ AsProxyOp(s).borrowed = << >>
             /\ \A t \in tokens :
                   LET root == AsProxyOp(s)
                       err == ProxyWithValueErr(root.borrowed, values[s], cells, t) IN
                   /\ err # DoubleBorrow
                   /\ err = StoreGetOp(values[s], cells, t).err
                   /\ err = Ok =>
                         /\ DeeperProxy(root, values[s], t).store = s
                         /\ DeeperProxy(root, values[s], t).borrowed = <<t.id>>
                         /\ DeeperProxy(root, values[s], t).token = t)
    /\ [][\A s \in Stores : \A t \in tokens :
             (panic = Ok /\ ProxyOf(s) = 0 /\ Allowed(s, t)) =>
                 (DoWithValue(AsProxyOp(s), t) <=> DoWithValue(Reach(s), t))
       ]_vars

\* C11 witness: the callback of a with_value called on a store outside of any
\* callback is running, with a proxy whose borrowed list is the token's id
C11_Witness ==
    /\ panic = Ok
    /\ Len(stack) = 1
    /\ stack[1].borrowed = <<stack[1].token.id>>
    /\ cells[stack[1].token.live]

\* the proxies of store s: the one as_proxy makes and those with_value made
Proxies(s) == {AsProxyOp(s)} \cup {stack[k] : k \in {j \in 1..Len(stack) : stack[j].store = s}}

\* C12: through a proxy, get, get_mut and remove with a token whose id is not
\* in the borrowed list pass the proxy's check and are the store's get,
\* get_mut and remove (same result, same next state); with a borrowed id they
\* end with the double borrow panic and change nothing; every insert, through
\* a proxy or not, is Store::insert on the proxy's store.
C12_ProxyMirrorsStore ==
    /\ [](\A s \in Stores : \A p \in Proxies(s) : \A t \in tokens :
             LET b == IF Contains(p.borrowed, t.id) THEN DoubleBorrow ELSE Ok
                 get == StoreGetOp(values[s], cells, t)
                 rem == StoreRemoveOp(values[s], cells, t) IN
             /\ ProxyGetErr(p, t) = b
             /\ ProxyGetMutErr(p, t) = b
             /\ ProxyRemoveErr(p, t) = b
             /\ ~Contains(p.borrowed, t.id) =>
                   \* the panic and the slots that DoGet, DoGetMut and DoRemove
                   \* give with the proxy's check are those of the Store method
                   /\ (IF ProxyGetErr(p, t) # Ok THEN ProxyGetErr(p, t) ELSE get.err)
                          = get.err
                   /\ (IF ProxyGetMutErr(p, t) # Ok THEN ProxyGetMutErr(p, t)
                       ELSE get.err) = get.err
                   /\ \A v \in Values :
                         (IF ProxyGetMutErr(p, t) # Ok THEN values[s]
                          ELSE StoreGetMutOp(values[s], cells, t, v))
                             = StoreGetMutOp(values[s], cells, t, v)
                   /\ (IF ProxyRemoveErr(p, t) # Ok THEN ProxyRemoveErr(p, t)
                       ELSE rem.err) = rem.err
                   /\ (IF ProxyRemoveErr(p, t) # Ok THEN values[s] ELSE rem.values)
                          = rem.values
                   /\ (IF ProxyRemoveErr(p, t) # Ok THEN cells ELSE rem.cells)
                          = rem.cells)
    /\ [][(panic = Ok /\ stack' = stack /\ issued' = issued /\ written' = written) =>
           \A s \in Stores :
             LET p == Reach(s) IN
             \A t \in tokens :
               Allowed(s, t) =>
                 IF ~Contains(p.borrowed, t.id)
                 THEN DoRemove(s, t, ProxyRemoveErr(p, t)) <=> DoRemove(s, t, Ok)
                 ELSE \/ /\ panic' = DoubleBorrow
                         /\ values' = values
                         /\ cells' = cells
                      \/ ~(\/ DoGet(s, t, ProxyGetErr(p, t))
                           \/ \E v \in Values : DoGetMut(s, t, v, ProxyGetMutErr(p, t))
                           \/ DoRemove(s, t, ProxyRemoveErr(p, t)))
       ]_vars
    /\ [][IsInsert =>
             \E s \in Stores, type \in Types, v \in Values :
                 LET r == StoreInsertOp(values[s], type, v, Len(cells) + 1) IN
                 /\ values' = [values EXCEPT ![s] = r.values]
                 /\ Token(r.id, Len(cells) + 1, type) \in tokens'
                 /\ stack' = stack
       ]_vars

\* C12 witness: inside a callback on a store, a live token of that store whose
\* id is not borrowed (get, get_mut and remove through the proxy are the
\* store's), beside the borrowed one
C12_Witness ==
    /\ panic = Ok
    /\ Len(stack) > 0
    /\ \E t \in tokens :
          LET s == stack[Len(stack)].store
              p == Reach(s) IN
          /\ issued[t.live].store = s
          /\ cells[t.live]
          /\ ~Contains(p.borrowed, t.id)
          /\ ProxyGetErr(p, t) = Ok
          /\ StoreGetOp(values[s], cells, t).err = Ok
          /\ StoreRemoveOp(values[s], cells, t).err = Ok

\* a step on store s through the proxy that reaches it: while a callback on s
\* runs, these are the operations through its session chain
ChainStep(s) ==
    \/ \E type \in Types, v \in Values : DoInsert(s, type, v)
    \/ \E t \in tokens :
          \/ DoGet(s, t, ProxyGetErr(Reach(s), t))
          \/ \E v \in Values : DoGetMut(s, t, v, ProxyGetMutErr(Reach(s), t))
          \/ DoRemove(s, t, ProxyRemoveErr(Reach(s), t))
          \/ DoWithValue(Reach(s), t)

\* C13: while the callback of with_value(h, f) runs, the slot at h's id of
\* the proxy's store is occupied by the occupant whose value f was given, that
\* occupant's flag is true and no other callback holds a reference to it; no
\* step removes or replaces the occupant; no operation through the session
\* chain changes h's flag; an insert through the chain never returns a
\* borrowed id.
C13_BorrowedOccupantStays ==
    /\ [](\A k \in Callbacks :
             LET s == stack[k].store
                 h == stack[k].token IN
             /\ stack[k].borrowed[Len(stack[k].borrowed)] = h.id
             /\ ValueRefValid(stack[k])
             /\ cells[stack[k].box]
             /\ \A j \in Callbacks \ {k} : stack[j].box # stack[k].box
             /\ \A j \in Chain(k) : \A type \in Types, v \in Values :
                   ~Contains(stack[j].borrowed,
                             StoreInsertOp(values[s], type, v, Len(cells) + 1).id))
    /\ [][\A k \in Callbacks :
             LET s == stack[k].store
                 h == stack[k].token IN
             (Len(stack') >= k) =>
                 /\ stack'[k] = stack[k]
                 /\ Len(values'[s]) > h.id
                 /\ values'[s][h.id + 1].some
                 /\ values'[s][h.id + 1].live = values[s][h.id + 1].live
                 /\ values'[s][h.id + 1].type = values[s][h.id + 1].type
                 /\ cells'[stack[k].box]
                 /\ cells'[h.live] \/ ~(cells[h.live] /\ ChainStep(s))
                 /\ (IsInsert /\ issued'[Len(issued')].store = s) =>
                        \A j \in Chain(k) :
                            ~Contains(stack[j].borrowed, issued'[Len(issued')].id)
       ]_vars

\* C13 witness: inside the callback of with_value(h, f), an operation on h
\* through the proxy was stopped, and h's occupant is in its slot, flag true
C13_Witness ==
    /\ panic = DoubleBorrow
    /\ Len(stack) = 1
    /\ ValueRefValid(stack[1])
    /\ cells[stack[1].token.live]
    /\ stack[1].box = stack[1].token.live

\* the ids of the tokens of the with_value calls on the store of stack[k] that
\* enclose the callback of stack[k], its own included, outermost first
EnclosingIds(k) ==
    LET fr == SelectSeq(SubSeq(stack, 1, k), LAMBDA p : p.store = stack[k].store) IN
    [i \in 1..Len(fr) |-> fr[i].token.id]

\* C14: the borrowed list of the proxy passed to a callback is the list of
\* the proxy with_value was called through with the token's id appended: at
\* nesting depth d of a chain it holds the d ids of the enclosing with_value
\* calls in order; the return of a callback drops its proxy only and leaves
\* the enclosing proxies as they were, so that the token's id is not borrowed
\* any more in the proxy that reaches the store, and get, get_mut, remove and
\* with_value with the token through it succeed when the token is live.
C14_BorrowedIsAStack ==
    /\ [](\A k \in Callbacks : stack[k].borrowed = EnclosingIds(k))
    /\ [][IF Len(stack') > Len(stack)
          THEN LET new == stack'[Len(stack')] IN
               /\ stack' = Append(stack, new)
               /\ new.borrowed = Append(Reach(new.store).borrowed, new.token.id)
               /\ Len(new.borrowed) =
                     Cardinality({j \in 1..Len(stack') : stack'[j].store = new.store})
          ELSE IF Len(stack') < Len(stack)
          THEN LET old == stack[Len(stack)]
                   s == old.store
                   h == old.token
                   ks == {j \in 1..(Len(stack) - 1) : stack[j].store = s}
                   \* the proxy with_value was called through: it reaches s again
                   outer == IF ks = {} THEN AsProxyOp(s)
                            ELSE stack[CHOOSE j \in ks : \A i \in ks : i <= j] IN
               /\ stack' = SubSeq(stack, 1, Len(stack) - 1)
               /\ Append(outer.borrowed, h.id) = old.borrowed
               /\ ~Contains(outer.borrowed, h.id)
               /\ cells'[h.live] =>
                     /\ ProxyGetErr(outer, h) = Ok
                     /\ ProxyGetMutErr(outer, h) = Ok
                     /\ ProxyRemoveErr(outer, h) = Ok
                     /\ StoreGetOp(values'[s], cells', h).err = Ok
                     /\ StoreRemoveOp(values'[s], cells', h).err = Ok
                     /\ ProxyWithValueErr(outer.borrowed, values'[s], cells', h) = Ok
          ELSE stack' = stack
       ]_vars

\* C14 witness: a with_value on one slot nested in a with_value on another
\* slot of the same store: the inner proxy has both ids, in the order of the calls
C14_Witness ==
    /\ panic = Ok
    /\ Len(stack) = 2
    /\ stack[1].store = stack[2].store
    /\ stack[1].token.id # stack[2].token.id
    /\ stack[1].borrowed = <<stack[1].token.id>>
    /\ stack[2].borrowed = <<stack[1].token.id, stack[2].token.id>>

\* C15: no slot id is twice in the borrowed list of a proxy; with_value with
\* a token whose id is in the borrowed list of the proxy ends with the double
\* borrow panic, and a step that ends with a panic builds no proxy.
C15_BorrowedIdsAreDistinct ==
    /\ [](\A s \in Stores : \A p \in Proxies(s) :
             /\ \A i, j \in 1..Len(p.borrowed) :
                   i # j => p.borrowed[i] # p.borrowed[j]
             /\ \A t \in tokens :
                   Contains(p.borrowed, t.id) =>
                       ProxyWithValueErr(p.borrowed, values[s], cells, t) = DoubleBorrow)
    /\ [][/\ panic' # Ok => stack' = stack
          /\ Len(stack') > Len(stack) =>
                ~Contains(Reach(stack'[Len(stack')].store).borrowed,
                          stack'[Len(stack')].token.id)
       ]_vars

\* C15 witness: two callbacks on tokens of the same slot id in two stores:
\* two chains, each with the id once
C15_Witness ==
    /\ panic = Ok
    /\ Len(stack) = 2
    /\ stack[1].store # stack[2].store
    /\ stack[1].token.id = stack[2].token.id
    /\ stack[1].borrowed = <<stack[1].token.id>>
    /\ stack[2].borrowed = <<stack[2].token.id>>

\* a dead token: its occupant was removed, its cell reads false
Dead(t) == ~cells[t.live] \/ t.live \notin InSlots(values)

\* C16: for a dead token, on every store and through every proxy (as_proxy's
\* or a callback's, at any depth), get, get_mut, remove and with_value end
\* with a panic; no callback is entered with a dead token, and a step with a
\* dead token changes no slot and no cell.
C16_DeadHandleIsFatal ==
    /\ [](\A t \in tokens : Dead(t) =>
             /\ ~cells[t.live]
             /\ \A s \in Stores : \A p \in Proxies(s) :
                   /\ StoreGetOp(values[s], cells, t).err = AlreadyRemoved
                   /\ StoreGetMutOp(values[s], cells, t, 1 - written[t.live]) = values[s]
                   /\ StoreRemoveOp(values[s], cells, t).err = AlreadyRemoved
                   /\ ProxyWithValueErr(p.borrowed, values[s], cells, t)
                          \in {DoubleBorrow, AlreadyRemoved}
                   /\ ProxyGetErr(p, t) \in {Ok, DoubleBorrow}
                   /\ ProxyGetMutErr(p, t) \in {Ok, DoubleBorrow}
                   /\ ProxyRemoveErr(p, t) \in {Ok, DoubleBorrow})
    /\ [][/\ Len(stack') > Len(stack) => ~Dead(stack'[Len(stack')].token)
          /\ \A s \in Stores : \A t \in tokens :
                (panic = Ok /\ Dead(t) /\ Allowed(s, t)) =>
                    \/ /\ panic' \in {DoubleBorrow, AlreadyRemoved}
                       /\ values' = values
                       /\ cells' = cells
                       /\ stack' = stack
                    \/ ~(\/ DoGet(s, t, ProxyGetErr(Reach(s), t))
                         \/ \E v \in Values :
                               DoGetMut(s, t, v, ProxyGetMutErr(Reach(s), t))
                         \/ DoRemove(s, t, ProxyRemoveErr(Reach(s), t))
                         \/ DoWithValue(Reach(s), t)
                         \/ DoWithValue(AsProxyOp(s), t))
       ]_vars

\* C16 witness: inside a callback, an operation with a token whose occupant
\* was removed ended with the "already removed" panic
C16_Witness ==
    /\ panic = AlreadyRemoved
    /\ Len(stack) > 0
    /\ \E t \in tokens : Dead(t) /\ t.live \in removed

\* every slot but slot id of store s is as it was
OtherSlotsKept(s, id) ==
    /\ \A s2 \in Stores : Len(values'[s2]) >= Len(values[s2])
    /\ \A s2 \in Stores : \A i \in 1..Len(values[s2]) :
          (s2 # s \/ i # id + 1) => values'[s2][i] = values[s2][i]

\* every live cell but cell l is live, its occupant in the slot its insert took
OtherHandlesKept(l) ==
    \A l2 \in LiveCells \ {l} :
        /\ cells'[l2]
        /\ values'[issued[l2].store][issued[l2].id + 1].some
        /\ values'[issued[l2].store][issued[l2].id + 1].live = l2

\* C17: insert changes only the slot it occupies (and makes one new cell);
\* remove(h) changes only the slot at h's id and the cell of h; get(h) and
\* get_mut(h) change no occupancy and no cell, get_mut only the value at h's
\* id; every other slot keeps occupant, value and cell, and every other live
\* token keeps its occupant at its id.
C17_OperationsAreLocal ==
    /\ [](\A s \in Stores : \A t \in tokens :
             LET r == StoreRemoveOp(values[s], cells, t) IN
             Allowed(s, t) =>
                 /\ \A l \in 1..Len(cells) : l # t.live => r.cells[l] = cells[l]
                 /\ \A i \in 1..Len(values[s]) : i # t.id + 1 => r.values[i] = values[s][i])
    /\ [][/\ tokens \subseteq tokens'
          /\ IsInsert =>
                /\ OtherSlotsKept(issued'[Len(issued')].store, issued'[Len(issued')].id)
                /\ \A l \in 1..Len(cells) : cells'[l] = cells[l]
                /\ OtherHandlesKept(0)
          /\ \A s \in Stores : \A t \in tokens :
                (panic = Ok /\ Allowed(s, t)) =>
                    /\ DoRemove(s, t, ProxyRemoveErr(Reach(s), t)) =>
                          /\ OtherSlotsKept(s, t.id)
                          /\ \A l \in 1..Len(cells) : l # t.live => cells'[l] = cells[l]
                          /\ OtherHandlesKept(t.live)
                    /\ (\/ DoGet(s, t, ProxyGetErr(Reach(s), t))
                        \/ \E v \in Values :
                              DoGetMut(s, t, v, ProxyGetMutErr(Reach(s), t))) =>
                          /\ OtherSlotsKept(s, t.id)
                          /\ cells' = cells
                          /\ \A s2 \in Stores :
                                /\ Len(values'[s2]) = Len(values[s2])
                                /\ \A i \in 1..Len(values[s2]) :
                                      /\ values'[s2][i].some = values[s2][i].some
                                      /\ values'[s2][i].live = values[s2][i].live
                                      /\ values'[s2][i].type = values[s2][i].type
                          /\ OtherHandlesKept(0)
       ]_vars

\* C18: a step that ends with the "already removed" or the double borrow
\* panic changes no slot, no value, no cell and no borrowed list; through a
\* proxy the borrowed check comes first: a token that is dead and whose id is
\* borrowed gives the double borrow panic.
C18_PanicChangesNothing ==
    /\ [](\A s \in Stores : \A p \in Proxies(s) : \A t \in tokens :
             /\ (~cells[t.live] /\ Contains(p.borrowed, t.id)) =>
                   /\ ProxyGetErr(p, t) = DoubleBorrow
                   /\ ProxyGetMutErr(p, t) = DoubleBorrow
                   /\ ProxyRemoveErr(p, t) = DoubleBorrow
                   /\ ProxyWithValueErr(p.borrowed, values[s], cells, t) = DoubleBorrow
             /\ StoreRemoveOp(values[s], cells, t).err = AlreadyRemoved =>
                   /\ StoreRemoveOp(values[s], cells, t).values = values[s]
                   /\ StoreRemoveOp(values[s], cells, t).cells = cells
             /\ StoreGetOp(values[s], cells, t).err = AlreadyRemoved =>
                   \A v \in Values : StoreGetMutOp(values[s], cells, t, v) = values[s])
    /\ [][/\ panic' \in {AlreadyRemoved, DoubleBorrow} =>
                /\ values' = values
                /\ cells' = cells
                /\ stack' = stack
                /\ tokens' = tokens
          /\ \A s \in Stores : \A t \in tokens :
                (panic = Ok /\ Allowed(s, t) /\ ~cells[t.live]
                   /\ Contains(Reach(s).borrowed, t.id)) =>
                    \/ panic' = DoubleBorrow
                    \/ ~(\/ DoGet(s, t, ProxyGetErr(Reach(s), t))
                         \/ \E v \in Values :
                               DoGetMut(s, t, v, ProxyGetMutErr(Reach(s), t))
                         \/ DoRemove(s, t, ProxyRemoveErr(Reach(s), t))
                         \/ DoWithValue(Reach(s), t))
       ]_vars

\* C18 witness: inside a callback on a slot that was taken again, an operation
\* stopped by the double borrow panic, beside the dead token of the slot's
\* former occupant: the token is dead and its id is borrowed
C18_Witness ==
    /\ panic = DoubleBorrow
    /\ Len(stack) = 1
    /\ \E t \in tokens :
          /\ ~cells[t.live]
          /\ issued[t.live].store = stack[1].store
          /\ Contains(stack[1].borrowed, t.id)
====
